---- MODULE Spec2Model ----
(***************************************************************************)
(* The incremental synchronisation engine of conduit-connector-bigquery.   *)
(*                                                                         *)
(* src/googlesource/googlesource.go holds two revisions of the engine:     *)
(*   lines   1-321  the multi-table variant  (Position{TableID, Offset},   *)
(*                  s.tables, s.latestPositions, runSnapshotIterator)       *)
(*   lines 323-681  the single-table variant (s.position is a string,      *)
(*                  s.table, optional increment column)                     *)
(* src/unnamed/part_000 is the Source of the single-table variant (Open,   *)
(* Read, Teardown, StopIterator).                                          *)
(*                                                                         *)
(* The variable `variant` selects the revision; Init chooses it, and each  *)
(* action belongs to one revision or to both.                              *)
(***************************************************************************)
EXTENDS Integers, Sequences, FiniteSets, TLC

(***************************************************************************)
(* Bounds of the model.                                                    *)
(***************************************************************************)
\* googlebigquery.CounterLimit, the page size (LIMIT of every query); its
\* definition lies outside src/, the model scales it down.
CounterLimit == 2
\* capacity of s.records: make(chan sdk.Record, 100) in Open, scaled down.
RecordsCap == 2
\* rows a table of the multi-table variant holds at most
MaxRows == 3
\* rows the table of the single-table variant holds at most
MaxRowsS == 4
\* rows that table holds at most when its increment column is not numeric
\* (the cursor is then a quoted value)
MaxRowsQ == 2
\* largest Offset of a resume position handed to Open
MaxResume == 1
\* cycles the scheduler starts (the snapshot cycle and the ticks after it)
MaxCycles == 2
\* rows appended to the tables while the connector runs
MaxAppends == 1
\* largest value of the increment column
MaxVal == 2
\* columns of a row of the single-table variant
MaxCols == 2
\* calls of Teardown the host makes
MaxTeardowns == 2

VARIABLES
    variant,          \* "multi" | "single": the revision of the engine
    openPos,          \* the resume position Open fetched from its blob (kept for the claims)
    data,             \* the warehouse: table -> sequence of rows (increment-column values)
    cfg,              \* s.sourceConfig: [incrementCol, numCols, intCol, tableBlank]
    position,         \* s.position: Position (multi) or cursor string (single)
    latestPositions,  \* s.latestPositions.LatestPositions: table -> Position (multi)
    sched,            \* runIterator: [pc, i, foundTable]
    cycle,            \* cycles started so far
    wg,               \* the sync.WaitGroup of each cycle: cycle -> counter
    readers,          \* running ReadGoogleRow goroutines: <<cycle, table>> -> locals
    records,          \* s.records: the buffered output channel
    recordsClosed,    \* close(s.records) has run
    iteratorClosed,   \* s.iteratorClosed: number of values buffered in it
    tomb,             \* s.tomb: [reason, alive, dead]
    tickerStopped,    \* s.ticker.Stop() has run
    clientClosed,     \* s.bqReadClient.Close() has run
    teardowns,        \* calls of Teardown so far
    panic,            \* the run-time panic that ended the process, or "none"
    nextRes,          \* what the last call of Next returned: [err, rec]
    appends,          \* rows appended so far
    emitted,          \* history: table -> records accepted by s.records, in order
    recvd             \* history: table -> records the host received, in order

vars == <<variant, openPos, data, cfg, position, latestPositions, sched, cycle, wg, readers,
          records, recordsClosed, iteratorClosed, tomb, tickerStopped, clientClosed,
          teardowns, panic, nextRes, appends, emitted, recvd>>

(***************************************************************************)
(* Values.                                                                 *)
(***************************************************************************)
TableIDs == <<"A", "B">>
TableSet == {TableIDs[i] : i \in DOMAIN TableIDs}
Cycles == 1..(MaxCycles + 1)

\* Go's zero value of Position
ZeroPosition == [TableID |-> "", Offset |-> 0]

\* Go strings that hold a cursor (single-table variant): "", a decimal
\* number, or a quoted value
EmptyStr == [k |-> "empty", v |-> 0]
NumStr(n) == [k |-> "num", v |-> n]
QuotedStr(n) == [k |-> "quoted", v |-> n]

\* sdk.Position: the bytes of a position token / resume blob
NilBlob == [kind |-> "nil", TableID |-> "", Offset |-> 0, s |-> EmptyStr]
GarbageBlob == [kind |-> "garbage", TableID |-> "", Offset |-> 0, s |-> EmptyStr]
\* json.Marshal(&position) of a Position struct
MarshalPosition(p) ==
    [kind |-> "object", TableID |-> p.TableID, Offset |-> p.Offset, s |-> EmptyStr]
\* json.Marshal(&s.position) of a string
MarshalString(str) ==
    [kind |-> "string", TableID |-> "", Offset |-> 0, s |-> str]

\* sdk.Record{}: the zero record
ZeroRecord == [TableID |-> "", Position |-> NilBlob, row |-> 0]

\* errors
NilErr == "nil"
StillAlive == "tomb: still alive"
ErrStopped == "iterator is stopped"
ErrCanceled == "context canceled"
ErrQuery == "query failed"
ErrBackoffRetry == "backoff retry"
ErrNotFound == "Not found"
ErrList == "listing tables failed"
ErrTableBlank == "table ID blank"

(***************************************************************************)
(* gopkg.in/tomb.v2, as the engine uses it.                                *)
(***************************************************************************)
tombDying(tb) == tb.reason # StillAlive

\* Tomb.Kill / Tomb.kill: the first reason wins; a nil reason is replaced
tombKill(tb, reason) ==
    IF tb.reason = StillAlive \/ tb.reason = NilErr
    THEN [tb EXCEPT !.reason = reason]
    ELSE tb

\* Tomb.Go: one more tracked goroutine
tombGo(tb) == [tb EXCEPT !.alive = @ + 1]

\* Tomb.run after f() returned err
tombRun(tb, err) ==
    LET a == tb.alive - 1
        k == IF a = 0 \/ err # NilErr THEN tombKill(tb, err) ELSE tb
    IN  [k EXCEPT !.alive = a, !.dead = (a = 0)]

(***************************************************************************)
(* The warehouse.  A row is [idx, val]: its place in the table (1-based,   *)
(* in the order the warehouse scans the table) and the value of its        *)
(* increment column.                                                       *)
(***************************************************************************)
Min(a, b) == IF a < b THEN a ELSE b
Max(a, b) == IF a > b THEN a ELSE b

\* SELECT * FROM t LIMIT CounterLimit OFFSET off
QueryOffset(rows, off) ==
    LET n == Max(0, Min(CounterLimit, Len(rows) - off))
    IN  [j \in 1..n |-> [idx |-> off + j, val |-> rows[off + j]]]

\* getRowIterator of the multi-table variant: the page at `offset`
getRowIteratorM(offset, tableID) == QueryOffset(data[tableID], offset)

(***************************************************************************)
(* The cursor store of the multi-table variant.                            *)
(***************************************************************************)
\* a reader that does not record the position before it sends
wrtieLatestPosition_skipped(lp, postion) == lp

\* wrtieLatestPosition: LatestPositions[postion.TableID] = postion
wrtieLatestPosition(lp, postion) ==
    [t \in DOMAIN lp \cup {postion.TableID} |->
        IF t = postion.TableID THEN postion ELSE lp[t]]

\* LatestPositions[tableID]: Go's map read, the zero value when absent
LatestPositionOf(lp, tableID) ==
    IF tableID \in DOMAIN lp THEN lp[tableID] ELSE ZeroPosition

\* fetchPos of the multi-table variant: json.Unmarshal into a Position
fetchPosM(pos) ==
    IF pos.kind = "object"
    THEN [TableID |-> pos.TableID, Offset |-> pos.Offset]
    ELSE ZeroPosition

(***************************************************************************)
(* Goroutines.                                                             *)
(***************************************************************************)
Running == panic = "none"

RemoveReader(r) == [x \in DOMAIN readers \ {r} |-> readers[x]]

\* the locals of ReadGoogleRow (multi-table variant) after `input := <-rowInput`
NewReaderM(tableID, pos) ==
    [pc |-> "loop", offset |-> pos.Offset, counter |-> 0, lastRow |-> FALSE,
     firstSync |-> FALSE, it |-> <<>>, pending |-> ZeroRecord,
     start |-> pos.Offset, fetches |-> 0,
     n0 |-> Max(0, Len(data[tableID]) - pos.Offset), len0 |-> Len(data[tableID])]

\* a cycle driver that does not wait for its readers
WgWait_none(n) == TRUE

\* wg.Wait returns
WgWait(n) == n = 0

\* a goroutine started with s.tomb.Go returns err; ReadGoogleRow's deferred
\* wg.Done runs first
ReaderReturn(r, err) ==
    /\ wg' = [wg EXCEPT ![r[1]] = @ - 1]
    /\ tomb' = tombRun(tomb, err)
    /\ readers' = RemoveReader(r)

(***************************************************************************)
(* runIterator, runSnapshotIterator, runCDCIterator (multi-table variant)  *)
(***************************************************************************)
\* the position runSnapshotIterator hands to the reader of every table
SnapshotStart(tableID) == position

\* a CDC cycle that starts every table over
CDCStart_fromZero(tableID) == ZeroPosition

\* the position runCDCIterator hands to the reader of tableID
CDCStart(tableID) == LatestPositionOf(latestPositions, tableID)

\* getTables of the multi-table variant: with Config.TableID blank the
\* tables are listed, and the listing may fail
getTablesM(listErr) == IF cfg.tableBlank /\ listErr THEN ErrList ELSE NilErr

\* runIterator returns err: the tomb's run of the goroutine ends
SchedReturn(err) ==
    /\ sched' = [sched EXCEPT !.pc = "done"]
    /\ tomb' = tombRun(tomb, err)

\* runIterator up to its loop: getTables, then the snapshot cycle if no
\* position has been written
MStart ==
    /\ Running /\ variant = "multi" /\ sched.pc = "start"
    /\ \E listErr \in BOOLEAN :
          IF getTablesM(listErr) # NilErr
          THEN /\ SchedReturn(getTablesM(listErr))
               /\ cycle' = cycle
          ELSE /\ IF Cardinality(DOMAIN latestPositions) = 0
                  THEN /\ sched' = [pc |-> "snapshot", i |-> 1, foundTable |-> FALSE]
                       /\ cycle' = cycle + 1
                  ELSE /\ sched' = [sched EXCEPT !.pc = "select"]
                       /\ cycle' = cycle
               /\ UNCHANGED tomb
    /\ UNCHANGED <<variant, openPos, data, cfg, position, latestPositions, wg, readers, records,
                   recordsClosed, iteratorClosed, tickerStopped, clientClosed,
                   teardowns, panic, nextRes, appends, emitted, recvd>>

\* the loop over s.tables goes on, or ends and reaches wg.Wait()
AfterStep ==
    IF sched.i = Len(TableIDs)
    THEN [sched EXCEPT !.pc = "wait"]
    ELSE [sched EXCEPT !.i = @ + 1]

\* one iteration of runSnapshotIterator's loop over s.tables
MSnapshotStep ==
    /\ Running /\ variant = "multi" /\ sched.pc = "snapshot"
    /\ LET tableID == TableIDs[sched.i]
           skip == /\ ~sched.foundTable
                   /\ position.TableID # ""
                   /\ position.TableID # tableID
           found == sched.foundTable \/ (position.TableID # "" /\ ~skip)
           nxt == [AfterStep EXCEPT !.foundTable = found]
       IN  /\ wg' = [wg EXCEPT ![cycle] = @ + 1]
           /\ sched' = nxt
           /\ IF skip
              THEN UNCHANGED <<readers, tomb>>
              ELSE /\ tomb' = tombGo(tomb)
                   /\ readers' = (<<cycle, tableID>> :> NewReaderM(tableID, SnapshotStart(tableID)))
                                     @@ readers
    /\ UNCHANGED <<variant, openPos, data, cfg, position, latestPositions, cycle, records,
                   recordsClosed, iteratorClosed, tickerStopped, clientClosed,
                   teardowns, panic, nextRes, appends, emitted, recvd>>

\* a reader is about to run wrtieLatestPosition: it is at it.Next with a
\* row to come
MapWriteDue == \E r \in DOMAIN readers : readers[r].pc = "next" /\ readers[r].it # <<>>

\* one iteration of runCDCIterator's loop over s.tables.  The read of
\* LatestPositions[tableID] takes no lock: when it overlaps a reader's write
\* of the map the Go runtime may end the process (fatal error: concurrent
\* map read and map write), or the read goes through
MCDCStep ==
    /\ Running /\ variant = "multi" /\ sched.pc = "cdc"
    /\ \/ LET tableID == TableIDs[sched.i]
          IN  /\ wg' = [wg EXCEPT ![cycle] = @ + 1]
              /\ sched' = AfterStep
              /\ tomb' = tombGo(tomb)
              /\ readers' = (<<cycle, tableID>> :> NewReaderM(tableID, CDCStart(tableID)))
                                @@ readers
              /\ UNCHANGED panic
       \/ /\ MapWriteDue
          /\ panic' = "concurrent map read and map write"
          /\ UNCHANGED <<wg, sched, tomb, readers>>
    /\ UNCHANGED <<variant, openPos, data, cfg, position, latestPositions, cycle, records,
                   recordsClosed, iteratorClosed, tickerStopped, clientClosed,
                   teardowns, nextRes, appends, emitted, recvd>>

\* wg.Wait() at the end of runSnapshotIterator / runCDCIterator
SchedWait ==
    /\ Running /\ sched.pc = "wait"
    /\ WgWait(wg[cycle])
    /\ sched' = [sched EXCEPT !.pc = "select"]
    /\ UNCHANGED <<variant, openPos, data, cfg, position, latestPositions, cycle, wg, readers,
                   records, recordsClosed, iteratorClosed, tomb, tickerStopped,
                   clientClosed, teardowns, panic, nextRes, appends, emitted,
                   recvd>>

\* select: case <-s.tomb.Dying(): return s.tomb.Err()
SchedDying ==
    /\ Running /\ sched.pc = "select"
    /\ tombDying(tomb)
    /\ SchedReturn(tomb.reason)
    /\ UNCHANGED <<variant, openPos, data, cfg, position, latestPositions, cycle, wg, readers,
                   records, recordsClosed, iteratorClosed, tickerStopped, clientClosed,
                   teardowns, panic, nextRes, appends, emitted, recvd>>

\* select: case <-s.ticker.C (multi-table variant): getTables, then a CDC
\* cycle if a position has been written, else a snapshot cycle
MTick ==
    /\ Running /\ variant = "multi" /\ sched.pc = "select"
    /\ ~tickerStopped /\ cycle < MaxCycles
    /\ \E listErr \in BOOLEAN :
          IF getTablesM(listErr) # NilErr
          THEN /\ SchedReturn(getTablesM(listErr))
               /\ cycle' = cycle
          ELSE /\ cycle' = cycle + 1
               /\ sched' = IF Cardinality(DOMAIN latestPositions) > 0
                           THEN [pc |-> "cdc", i |-> 1, foundTable |-> FALSE]
                           ELSE [pc |-> "snapshot", i |-> 1, foundTable |-> FALSE]
               /\ UNCHANGED tomb
    /\ UNCHANGED <<variant, openPos, data, cfg, position, latestPositions, wg, readers, records,
                   recordsClosed, iteratorClosed, tickerStopped, clientClosed,
                   teardowns, panic, nextRes, appends, emitted, recvd>>

(***************************************************************************)
(* ReadGoogleRow (multi-table variant)                                     *)
(***************************************************************************)
\* a reader that does not count the row
NextOffsetM_stuck(offset) == offset

\* offset++
NextOffsetM(offset) == offset + 1

\* the head of the outer loop: leave when lastRow, else fetch the next page
MReadLoop(r) ==
    /\ Running /\ variant = "multi" /\ r \in DOMAIN readers
    /\ readers[r].pc = "loop"
    /\ \/ /\ readers[r].lastRow
          /\ ReaderReturn(r, NilErr)
       \/ /\ ~readers[r].lastRow /\ tombDying(tomb)
          /\ ReaderReturn(r, ErrCanceled)
       \/ /\ ~readers[r].lastRow /\ ~tombDying(tomb)
          /\ \E err \in {ErrQuery, ErrNotFound} : ReaderReturn(r, err)
       \/ /\ ~readers[r].lastRow /\ ~tombDying(tomb)
          /\ readers' = [readers EXCEPT ![r] =
                 [@ EXCEPT !.pc = "next", !.counter = 0, !.fetches = @ + 1,
                           !.it = getRowIteratorM(readers[r].offset, r[2])]]
          /\ UNCHANGED <<wg, tomb>>
    /\ UNCHANGED <<variant, openPos, data, cfg, position, latestPositions, sched, cycle, records,
                   recordsClosed, iteratorClosed, tickerStopped, clientClosed,
                   teardowns, panic, nextRes, appends, emitted, recvd>>

\* the error it.Next returns when it fails: the queries run under the
\* tomb's context
ItNextErr == IF tombDying(tomb) THEN ErrCanceled ELSE ErrQuery

\* one pass of the inner loop up to the send: the select on iteratorClosed,
\* it.Next (iterator.Done, an error, or a row), and for a row the new
\* position and wrtieLatestPosition
MReadNext(r) ==
    /\ Running /\ variant = "multi" /\ r \in DOMAIN readers
    /\ readers[r].pc = "next"
    /\ LET rd == readers[r]
           tableID == r[2]
       IN  IF iteratorClosed > 0
           THEN /\ iteratorClosed' = iteratorClosed - 1
                /\ ReaderReturn(r, NilErr)
                /\ UNCHANGED latestPositions
           ELSE IF rd.it = <<>>
           THEN /\ readers' = [readers EXCEPT ![r] =
                       [@ EXCEPT !.pc = "loop",
                                 !.lastRow = (rd.counter < CounterLimit)]]
                /\ UNCHANGED <<latestPositions, iteratorClosed, wg, tomb>>
           ELSE LET offset == NextOffsetM(rd.offset)
                    pos == [TableID |-> tableID, Offset |-> offset]
                    rec == [TableID |-> tableID, Position |-> MarshalPosition(pos),
                            row |-> Head(rd.it).idx]
                IN  /\ latestPositions' = wrtieLatestPosition(latestPositions, pos)
                    /\ readers' = [readers EXCEPT ![r] =
                           [@ EXCEPT !.pc = "send", !.offset = offset,
                                     !.counter = @ + 1, !.it = Tail(rd.it),
                                     !.pending = rec]]
                    /\ UNCHANGED <<iteratorClosed, wg, tomb>>
    /\ UNCHANGED <<variant, openPos, data, cfg, position, sched, cycle, records, recordsClosed,
                   tickerStopped, clientClosed, teardowns, panic, nextRes,
                   appends, emitted, recvd>>

\* the inner loop when it.Next fails: return err
MReadNextErr(r) ==
    /\ Running /\ variant = "multi" /\ r \in DOMAIN readers
    /\ readers[r].pc = "next" /\ iteratorClosed = 0
    /\ ReaderReturn(r, ItNextErr)
    /\ UNCHANGED <<variant, openPos, data, cfg, position, latestPositions, sched, cycle,
                   records, recordsClosed, iteratorClosed, tickerStopped, clientClosed,
                   teardowns, panic, nextRes, appends, emitted, recvd>>

\* responseCh <- record: blocks while the channel is full, panics once it is closed
ReadSend(r) ==
    /\ Running /\ r \in DOMAIN readers
    /\ readers[r].pc = "send"
    /\ IF recordsClosed
       THEN /\ panic' = "send on closed channel"
            /\ UNCHANGED <<records, readers, emitted>>
       ELSE /\ Len(records) < RecordsCap
            /\ records' = Append(records, readers[r].pending)
            /\ emitted' = [emitted EXCEPT ![r[2]] = Append(@, readers[r].pending)]
            /\ readers' = [readers EXCEPT ![r] =
                   [@ EXCEPT !.pc = "next", !.pending = ZeroRecord]]
            /\ UNCHANGED panic
    /\ UNCHANGED <<variant, openPos, data, cfg, position, latestPositions, sched, cycle, wg,
                   recordsClosed, iteratorClosed, tomb, tickerStopped, clientClosed,
                   teardowns, nextRes, appends, recvd>>

(***************************************************************************)
(* The single-table variant: cursor strings and queries.                   *)
(***************************************************************************)
\* a fetchPos that keeps what it made of a blob it could not parse
fetchPosS_keepsGarbage(pos) ==
    IF pos.kind = "string" THEN pos.s
    ELSE IF pos.kind = "garbage" THEN NumStr(1) ELSE EmptyStr

\* fetchPos of the single-table variant: s.position = "", then
\* json.Unmarshal(pos, &s.position)
fetchPosS(pos) == IF pos.kind = "string" THEN pos.s ELSE EmptyStr

\* getType: numeric field types keep the text, every other type is quoted
getType(isNumeric, offset) ==
    IF isNumeric THEN offset ELSE QuotedStr(offset.v)

\* calcOffset: "0" on the first sync, then strconv.Atoi and one more
calcOffset(firstSync, offset) ==
    LET o == IF firstSync THEN NumStr(0) ELSE offset
    IN  IF o.k = "num" THEN NumStr(o.v + 1) ELSE o

\* the loop `for i, r := range row` as far as offset goes: with no increment
\* column calcOffset runs for every column, with one the column's value is taken
RECURSIVE RowOffset(_, _, _, _)
RowOffset(cols, firstSync, offset, row) ==
    IF cols = 0 THEN offset
    ELSE RowOffset(cols - 1, firstSync,
                   IF cfg.incrementCol
                   THEN getType(cfg.intCol, NumStr(row.val))
                   ELSE calcOffset(firstSync, offset),
                   row)

\* SELECT * ... WHERE col > c ORDER BY col LIMIT CounterLimit
QueryWhere(rows, c, all) ==
    LET idxs == {i \in 1..Len(rows) : all \/ rows[i] > c}
        n == Min(CounterLimit, Cardinality(idxs))
        first == IF idxs = {} THEN 1 ELSE CHOOSE i \in idxs : \A j \in idxs : i <= j
    IN  [j \in 1..n |-> [idx |-> first + j - 1, val |-> rows[first + j - 1]]]

\* getRowIterator of the single-table variant
getRowIteratorS(offset, tableID, firstSync) ==
    IF cfg.incrementCol
    THEN QueryWhere(data[tableID], offset.v, firstSync)
    ELSE QueryOffset(data[tableID], IF offset.k = "empty" THEN 0 ELSE offset.v)

\* rows a reader that starts at `offset` has still to read
Remaining(tableID, offset) ==
    IF cfg.incrementCol
    THEN Cardinality({i \in 1..Len(data[tableID]) :
                         offset.k = "empty" \/ data[tableID][i] > offset.v})
    ELSE Max(0, Len(data[tableID]) - offset.v)

\* the locals of ReadGoogleRow (single-table variant) at its loop
NewReaderS(tableID, rowInput) ==
    [pc |-> "loop", offset |-> rowInput.offset, counter |-> 0, lastRow |-> FALSE,
     firstSync |-> (rowInput.positions = EmptyStr), it |-> <<>>, pending |-> ZeroRecord,
     start |-> rowInput.offset, fetches |-> 0,
     n0 |-> Remaining(tableID, rowInput.offset), len0 |-> Len(data[tableID])]

(***************************************************************************)
(* runIterator, runCDCIterator (single-table variant)                      *)
(***************************************************************************)
\* readRowInput{offset: s.position, positions: s.position, wg: &wg}
RowInputS == [offset |-> position, positions |-> position]

\* getTables of the single-table variant: with Config.TableIDs blank it
\* calls err.Error() on its nil err before it returns the error
getTablesS ==
    IF cfg.tableBlank THEN "nil pointer dereference" ELSE "none"

\* runIterator up to its loop: getTables, wg.Add(1), the snapshot reader
SStart ==
    /\ Running /\ variant = "single" /\ sched.pc = "start"
    /\ IF getTablesS # "none"
       THEN /\ panic' = getTablesS
            /\ UNCHANGED <<cycle, wg, tomb, readers, sched>>
       ELSE /\ cycle' = cycle + 1
            /\ wg' = [wg EXCEPT ![cycle + 1] = @ + 1]
            /\ tomb' = tombGo(tomb)
            /\ readers' = (<<cycle + 1, "A">> :> NewReaderS("A", RowInputS)) @@ readers
            /\ sched' = [sched EXCEPT !.pc = "wait"]
            /\ UNCHANGED panic
    /\ UNCHANGED <<variant, openPos, data, cfg, position, latestPositions, records,
                   recordsClosed, iteratorClosed, tickerStopped, clientClosed,
                   teardowns, nextRes, appends, emitted, recvd>>

\* select: case <-s.ticker.C: runCDCIterator up to its wg.Wait()
STick ==
    /\ Running /\ variant = "single" /\ sched.pc = "select"
    /\ ~tickerStopped /\ cycle < MaxCycles
    /\ cycle' = cycle + 1
    /\ wg' = [wg EXCEPT ![cycle + 1] = @ + 1]
    /\ tomb' = tombGo(tomb)
    /\ readers' = (<<cycle + 1, "A">> :> NewReaderS("A", RowInputS)) @@ readers
    /\ sched' = [sched EXCEPT !.pc = "wait"]
    /\ UNCHANGED <<variant, openPos, data, cfg, position, latestPositions, records,
                   recordsClosed, iteratorClosed, tickerStopped, clientClosed,
                   teardowns, panic, nextRes, appends, emitted, recvd>>

(***************************************************************************)
(* ReadGoogleRow (single-table variant)                                    *)
(***************************************************************************)
\* writePosition: s.position = offset
writePosition(offset) == offset

\* the head of the outer loop: leave when lastRow, else fetch the next page;
\* a "Not found" error ends the reader without error
SReadLoop(r) ==
    /\ Running /\ variant = "single" /\ r \in DOMAIN readers
    /\ readers[r].pc = "loop"
    /\ \/ /\ readers[r].lastRow
          /\ ReaderReturn(r, NilErr)
       \/ /\ ~readers[r].lastRow /\ tombDying(tomb)
          /\ ReaderReturn(r, ErrCanceled)
       \/ /\ ~readers[r].lastRow /\ ~tombDying(tomb)
          /\ \E err \in {ErrQuery, ErrNotFound} :
                ReaderReturn(r, IF err = ErrNotFound THEN NilErr ELSE err)
       \/ /\ ~readers[r].lastRow /\ ~tombDying(tomb)
          /\ readers' = [readers EXCEPT ![r] =
                 [@ EXCEPT !.pc = "next", !.counter = 0, !.fetches = @ + 1,
                           !.it = getRowIteratorS(readers[r].offset, r[2],
                                                  readers[r].firstSync)]]
          /\ UNCHANGED <<wg, tomb>>
    /\ UNCHANGED <<variant, openPos, data, cfg, position, latestPositions, sched, cycle, records,
                   recordsClosed, iteratorClosed, tickerStopped, clientClosed,
                   teardowns, panic, nextRes, appends, emitted, recvd>>

\* one pass of the inner loop up to the send: the select on iteratorClosed,
\* it.Next, and for a row the new offset and writePosition
SReadNext(r) ==
    /\ Running /\ variant = "single" /\ r \in DOMAIN readers
    /\ readers[r].pc = "next"
    /\ LET rd == readers[r]
       IN  IF iteratorClosed > 0
           THEN /\ iteratorClosed' = iteratorClosed - 1
                /\ ReaderReturn(r, NilErr)
                /\ UNCHANGED position
           ELSE IF rd.it = <<>>
           THEN /\ readers' = [readers EXCEPT ![r] =
                       [@ EXCEPT !.pc = "loop",
                                 !.lastRow = (rd.counter < CounterLimit)]]
                /\ UNCHANGED <<position, iteratorClosed, wg, tomb>>
           ELSE LET offset == RowOffset(cfg.numCols, rd.firstSync, rd.offset, Head(rd.it))
                    rec == [TableID |-> r[2],
                            Position |-> MarshalString(writePosition(offset)),
                            row |-> Head(rd.it).idx]
                IN  /\ position' = writePosition(offset)
                    /\ readers' = [readers EXCEPT ![r] =
                           [@ EXCEPT !.pc = "send", !.offset = offset,
                                     !.counter = @ + 1, !.firstSync = FALSE,
                                     !.it = Tail(rd.it), !.pending = rec]]
                    /\ UNCHANGED <<iteratorClosed, wg, tomb>>
    /\ UNCHANGED <<variant, openPos, data, cfg, latestPositions, sched, cycle, records,
                   recordsClosed, tickerStopped, clientClosed, teardowns, panic,
                   nextRes, appends, emitted, recvd>>

\* the inner loop when it.Next fails: return err
SReadNextErr(r) ==
    /\ Running /\ variant = "single" /\ r \in DOMAIN readers
    /\ readers[r].pc = "next" /\ iteratorClosed = 0
    /\ ReaderReturn(r, ItNextErr)
    /\ UNCHANGED <<variant, openPos, data, cfg, position, latestPositions, sched, cycle,
                   records, recordsClosed, iteratorClosed, tickerStopped, clientClosed,
                   teardowns, panic, nextRes, appends, emitted, recvd>>

(***************************************************************************)
(* Teardown and StopIterator (part_000)                                    *)
(***************************************************************************)
\* StopIterator: the client's Close; on its error nothing else; else the
\* ticker is stopped and the tomb killed
StopIterator(closeErr) ==
    /\ clientClosed' = TRUE
    /\ IF closeErr
       THEN UNCHANGED <<tickerStopped, tomb>>
       ELSE /\ tickerStopped' = TRUE
            /\ tomb' = tombKill(tomb, ErrStopped)

\* Teardown: close(s.records), then StopIterator; closing a closed channel panics
Teardown(closeErr) ==
    /\ Running /\ variant = "single"
    /\ teardowns < MaxTeardowns
    /\ teardowns' = teardowns + 1
    /\ IF recordsClosed
       THEN /\ panic' = "close of closed channel"
            /\ UNCHANGED <<recordsClosed, clientClosed, tickerStopped, tomb>>
       ELSE /\ recordsClosed' = TRUE
            /\ StopIterator(closeErr)
            /\ UNCHANGED panic
    /\ UNCHANGED <<variant, openPos, data, cfg, position, latestPositions, sched, cycle, wg,
                   readers, records, iteratorClosed, nextRes, appends, emitted, recvd>>

(***************************************************************************)
(* The host.                                                               *)
(***************************************************************************)
\* Source.Next (through Source.Read): a select over tomb.Dead(), s.records
\* and default; Go picks any case that is ready
Next ==
    /\ Running
    /\ \/ /\ tomb.dead
          /\ nextRes' = [err |-> tomb.reason, rec |-> ZeroRecord]
          /\ UNCHANGED <<records, recvd>>
       \/ /\ Len(records) > 0
          /\ nextRes' = [err |-> NilErr, rec |-> Head(records)]
          /\ records' = Tail(records)
          /\ recvd' = [recvd EXCEPT ![Head(records).TableID] = Append(@, Head(records))]
       \/ /\ Len(records) = 0 /\ recordsClosed
          /\ nextRes' = [err |-> NilErr, rec |-> ZeroRecord]
          /\ UNCHANGED <<records, recvd>>
       \/ /\ ~tomb.dead /\ Len(records) = 0 /\ ~recordsClosed
          /\ nextRes' = [err |-> ErrBackoffRetry, rec |-> ZeroRecord]
          /\ UNCHANGED <<records, recvd>>
    /\ UNCHANGED <<variant, openPos, data, cfg, position, latestPositions, sched, cycle, wg,
                   readers, recordsClosed, iteratorClosed, tomb, tickerStopped,
                   clientClosed, teardowns, panic, appends, emitted>>

(***************************************************************************)
(* The environment: rows are appended to the tables between two cycles (a  *)
(* table does not change while a cycle reads it).  Only the increment      *)
(* column's value tells rows apart, and only when it is configured.        *)
(***************************************************************************)
RowLimit ==
    IF variant = "multi" THEN MaxRows
    ELSE IF cfg.intCol THEN MaxRowsS ELSE MaxRowsQ

AppendRow(t, v) ==
    /\ Running /\ appends < MaxAppends
    /\ sched.pc = "select"
    /\ Len(data[t]) < RowLimit
    /\ variant = "single" => t = "A"
    /\ ~cfg.incrementCol => v = 1
    /\ Len(data[t]) > 0 => v >= data[t][Len(data[t])]
    /\ data' = [data EXCEPT ![t] = Append(@, v)]
    /\ appends' = appends + 1
    /\ UNCHANGED <<variant, openPos, cfg, position, latestPositions, sched, cycle, wg, readers,
                   records, recordsClosed, iteratorClosed, tomb, tickerStopped,
                   clientClosed, teardowns, panic, nextRes, emitted, recvd>>

(***************************************************************************)
(* The state after Open.                                                   *)
(***************************************************************************)
EmptyFn == [x \in {} |-> 0]
Ones(n) == [i \in 1..n |-> 1]

\* resume blobs the multi-table variant is opened with
BlobsM ==
    {NilBlob, GarbageBlob} \cup
    {MarshalPosition([TableID |-> t, Offset |-> o]) : t \in TableSet, o \in 1..MaxResume}

\* Open of the multi-table variant: s.position = fetchPos(s, pos), an empty
\* LatestPositions map, the records channel, the tomb running runIterator
MOpen(pos) ==
    /\ variant = "multi"
    /\ cfg = [incrementCol |-> FALSE, numCols |-> 1, intCol |-> TRUE, tableBlank |-> TRUE]
    /\ position = fetchPosM(pos)
    /\ openPos = fetchPosM(pos)
    /\ latestPositions = EmptyFn
    /\ sched = [pc |-> "start", i |-> 1, foundTable |-> FALSE]
    /\ cycle = 0
    /\ wg = [c \in Cycles |-> 0]
    /\ readers = EmptyFn
    /\ records = <<>>
    /\ recordsClosed = FALSE
    /\ iteratorClosed = 0
    /\ tomb = [reason |-> StillAlive, alive |-> 1, dead |-> FALSE]
    /\ tickerStopped = FALSE
    /\ clientClosed = FALSE
    /\ teardowns = 0
    /\ panic = "none"
    /\ nextRes = [err |-> NilErr, rec |-> ZeroRecord]
    /\ appends = 0
    /\ emitted = [t \in TableSet |-> <<>>]
    /\ recvd = [t \in TableSet |-> <<>>]

\* the tables hold any rows; a resume position names rows that were read
MInit ==
    \E pos \in BlobsM :
        /\ data \in [TableSet -> {Ones(n) : n \in 0..MaxRows}]
        /\ pos.kind = "object" => Len(data[pos.TableID]) >= pos.Offset
        /\ MOpen(pos)

\* resume blobs the single-table variant is opened with
BlobsS(c) ==
    {NilBlob, GarbageBlob} \cup
    IF c.incrementCol
    THEN {MarshalString(getType(c.intCol, NumStr(v))) : v \in 1..MaxVal}
    ELSE {MarshalString(NumStr(o)) : o \in 1..MaxResume}

\* sorted sequences of increment-column values
SortedRows(n) ==
    {q \in [1..n -> 1..MaxVal] : \A i \in 1..n, j \in 1..n : i < j => q[i] <= q[j]}

\* Open (part_000): fetchPos, the records and iteratorClosed channels, the
\* ticker, the tomb, the client, s.tomb.Go(s.runIterator)
SOpen(pos) ==
    /\ variant = "single"
    /\ position = fetchPosS(pos)
    /\ openPos = fetchPosS(pos)
    /\ latestPositions = EmptyFn
    /\ sched = [pc |-> "start", i |-> 1, foundTable |-> FALSE]
    /\ cycle = 0
    /\ wg = [c \in Cycles |-> 0]
    /\ readers = EmptyFn
    /\ records = <<>>
    /\ recordsClosed = FALSE
    /\ iteratorClosed = 0
    /\ tomb = [reason |-> StillAlive, alive |-> 1, dead |-> FALSE]
    /\ tickerStopped = FALSE
    /\ clientClosed = FALSE
    /\ teardowns = 0
    /\ panic = "none"
    /\ nextRes = [err |-> NilErr, rec |-> ZeroRecord]
    /\ appends = 0
    /\ emitted = [t \in TableSet |-> <<>>]
    /\ recvd = [t \in TableSet |-> <<>>]

\* the configuration: no increment column (rows of 1..MaxCols columns), or an
\* increment column of an integer or of another type; the table identifier
\* is set, or blank
SInit ==
    /\ cfg \in {[incrementCol |-> FALSE, numCols |-> n, intCol |-> TRUE, tableBlank |-> b] :
                   n \in 1..MaxCols, b \in BOOLEAN}
              \cup {[incrementCol |-> TRUE, numCols |-> 1, intCol |-> b, tableBlank |-> FALSE] :
                       b \in BOOLEAN}
    /\ \E n \in 0..(IF cfg.intCol THEN MaxRowsS ELSE MaxRowsQ) :
          \E q \in (IF cfg.incrementCol THEN SortedRows(n) ELSE {Ones(n)}) :
              data = [t \in TableSet |-> IF t = "A" THEN q ELSE <<>>]
    /\ \E pos \in BlobsS(cfg) : SOpen(pos)

Init == MInit \/ SInit

Step ==
    \/ MStart \/ MSnapshotStep \/ MCDCStep \/ SchedWait \/ SchedDying \/ MTick
    \/ SStart \/ STick
    \/ \E r \in DOMAIN readers : MReadLoop(r)
    \/ \E r \in DOMAIN readers : MReadNext(r)
    \/ \E r \in DOMAIN readers : MReadNextErr(r)
    \/ \E r \in DOMAIN readers : SReadLoop(r)
    \/ \E r \in DOMAIN readers : SReadNext(r)
    \/ \E r \in DOMAIN readers : SReadNextErr(r)
    \/ \E r \in DOMAIN readers : ReadSend(r)
    \/ Next
    \/ \E closeErr \in BOOLEAN : Teardown(closeErr)
    \/ \E t \in TableSet, v \in 1..MaxVal : AppendRow(t, v)

Spec == Init /\ [][Step]_vars

(***************************************************************************)
(* What the claims speak of.                                               *)
(***************************************************************************)
\* the table the single-table variant reads (s.table)
TheTable == "A"

\* Open restored a cursor for table t from the resume blob
HasResume(t) ==
    IF variant = "multi" THEN openPos.TableID = t
    ELSE t = TheTable /\ openPos # EmptyStr

\* record rec of table t lies after the cursor Open restored for t
AfterResume(t, rec) ==
    IF variant = "multi" THEN rec.row > openPos.Offset
    ELSE IF cfg.incrementCol THEN data[t][rec.row] > openPos.v
    ELSE rec.row > openPos.v

\* the position token of the cursor the store holds for table t
StoredToken(t) ==
    IF variant = "multi"
    THEN MarshalPosition(LatestPositionOf(latestPositions, t))
    ELSE MarshalString(position)

\* the cursor the store holds for table t, as a number (0: none)
StoredCursor(t) ==
    IF variant = "multi" THEN LatestPositionOf(latestPositions, t).Offset
    ELSE IF t = TheTable THEN position.v ELSE 0

\* the cursor a position token holds, as a number
TokenNum(tok) == IF variant = "multi" THEN tok.Offset ELSE tok.s.v

\* the reader starts at the beginning of its table
StartsAtBeginning(rd) ==
    IF variant = "multi" THEN rd.start = 0 ELSE rd.start = EmptyStr

\* reader r is blocked in its send on the full channel
Blocked(r) ==
    /\ readers[r].pc = "send" /\ ~recordsClosed /\ Len(records) = RecordsCap

IsPrefix(p, q) ==
    /\ Len(p) <= Len(q)
    /\ \A i \in 1..Len(p) : p[i] = q[i]

(***************************************************************************)
(* The claims.                                                             *)
(***************************************************************************)

\* C1 (as claimed): a table whose cursor C was restored by Open is never
\* read before C again: every record of it that reaches the output channel
\* is a row after C, and every reader of it starts at or after C.
C1_NoRowBeforeResumedCursor ==
    \A t \in TableSet :
        HasResume(t) =>
            /\ \A i \in 1..Len(emitted[t]) : AfterResume(t, emitted[t][i])
            /\ \A r \in DOMAIN readers :
                   (r[2] = t /\ variant = "multi") => readers[r].start >= openPos.Offset

\* C1, the state the bug shows in: a CDC cycle runs a reader of the resumed
\* table from offset 0
C1_Witness ==
    \E r \in DOMAIN readers :
        /\ variant = "multi" /\ HasResume(r[2]) /\ r[1] >= 2
        /\ readers[r].start = 0

\* C2 (as claimed): a reader of a table that has no cursor (none restored by
\* Open, none written before) starts at the beginning of the table.
C2_NoCursorStartsAtBeginning ==
    \A r \in DOMAIN readers :
        (/\ ~HasResume(r[2])
         /\ emitted[r[2]] = <<>>
         /\ StoredCursor(r[2]) = 0)
        => StartsAtBeginning(readers[r])

\* C3 (as claimed): a reader that has reached the end of an unchanged table
\* of N remaining rows has fetched N \div CounterLimit + 1 pages.
C3_FetchCount ==
    \A r \in DOMAIN readers :
        (/\ readers[r].pc = "loop" /\ readers[r].lastRow
         /\ Len(data[r[2]]) = readers[r].len0)
        => readers[r].fetches = (readers[r].n0 \div CounterLimit) + 1

\* C4 (as claimed): while a reader is blocked sending on the full channel,
\* the stored cursor of its table has not been advanced for the pending record.
C4_CursorNotAheadWhenBlocked ==
    \A r \in DOMAIN readers :
        Blocked(r) => StoredToken(r[2]) # readers[r].pending.Position

\* C4 (amended): the stored cursor of a table is ahead of the records the
\* channel accepted by exactly the one pending record: while a reader is at
\* its send the store holds the pending record's position, otherwise the
\* position of the last record of the table the channel accepted.
C4_CursorAheadByPendingOnly ==
    \A t \in TableSet :
        /\ \A r \in DOMAIN readers :
               (r[2] = t /\ readers[r].pc = "send")
               => StoredToken(t) = readers[r].pending.Position
        /\ ((\A r \in DOMAIN readers : r[2] = t => readers[r].pc # "send")
             /\ emitted[t] # <<>>)
           => StoredToken(t) = emitted[t][Len(emitted[t])].Position

\* C4, the case: a reader blocked on the full channel
C4_Witness == \E r \in DOMAIN readers : Blocked(r)

\* C5: the cursor stored for a table never decreases.
C5_CursorMonotonic ==
    [][\A t \in TableSet : StoredCursor(t)' >= StoredCursor(t)]_vars

\* C5, the case: the first record of a reader of a later cycle has advanced
\* the cursor that an earlier cycle wrote
C5_Witness ==
    \E r \in DOMAIN readers :
        /\ r[1] >= 2 /\ readers[r].pc = "send"
        /\ readers[r].fetches = 1 /\ readers[r].counter = 1
        /\ emitted[r[2]] # <<>>
        /\ StoredCursor(r[2]) > TokenNum(emitted[r[2]][Len(emitted[r[2]])].Position)

\* C6: every running reader belongs to the cycle in flight, and no table
\* has two running readers.
C6_OneCycleInFlight ==
    /\ \A r \in DOMAIN readers : r[1] = cycle
    /\ \A r1 \in DOMAIN readers, r2 \in DOMAIN readers : r1[2] = r2[2] => r1 = r2
    /\ sched.pc = "select" => readers = EmptyFn

\* C6, the case: a reader of the second cycle runs
C6_Witness ==
    \E r \in DOMAIN readers : r[1] = 2 /\ readers[r].pc = "send" /\ cycle = 2

\* C7: per table, the host receives the records in the order the reader
\* sent them, and in the multi-table variant with increasing position tokens.
C7_PerTableOrder ==
    \A t \in TableSet :
        /\ IsPrefix(recvd[t], emitted[t])
        /\ variant = "multi" =>
              \A i \in 1..Len(emitted[t]), j \in 1..Len(emitted[t]) :
                  i < j => emitted[t][i].Position.Offset < emitted[t][j].Position.Offset

\* C7, the case: records of both tables received, interleaved, over two cycles
C7_Witness ==
    /\ variant = "multi" /\ cycle = 2
    /\ Len(recvd["A"]) >= 2 /\ Len(recvd["B"]) >= 1
    /\ nextRes.rec.TableID = "A"
    /\ \E r \in DOMAIN readers : r[1] = 2 /\ r[2] = "B"

\* C8 (as claimed): no reader executes a send on the records channel once
\* Teardown has closed it.
C8_NoSendOnClosed == panic # "send on closed channel"

\* C9 (as claimed): once Teardown has run, a reader that comes to its check
\* point takes no further row (it neither advances the cursor nor reaches
\* its send), and the tomb's error stays the "iterator is stopped" error.
C9_ReaderStopsAfterTeardown ==
    [][/\ \A r \in DOMAIN readers :
              (teardowns > 0 /\ readers[r].pc = "next" /\ r \in DOMAIN readers')
              => (readers'[r].pc # "send" /\ position' = position)
       /\ tomb.reason = ErrStopped => tomb'.reason = ErrStopped]_vars

\* C10 (as claimed): after Teardown the ticker is stopped and the tomb is dying.
C10_TeardownKillsAlways ==
    teardowns > 0 => (tickerStopped /\ tombDying(tomb))

(***************************************************************************)
(* Errors, Next, Open.                                                     *)
(***************************************************************************)
\* the errors of a failed query or iteration that end the run
FatalErrs == {ErrQuery, ErrList}

\* C11 (as claimed): once the group has been killed by an unrecoverable
\* error, a reader that comes to its per-row check point takes no further
\* row: it does not go on to another send.  (Stated for a reader that is
\* within a page, whose rows the iterator holds already.)
C11_ReadersStopAfterKill ==
    [][\A r \in DOMAIN readers :
          (/\ tomb.reason \in FatalErrs
           /\ readers[r].pc = "next" /\ readers[r].counter > 0
           /\ r \in DOMAIN readers')
          => readers'[r].pc # "send"]_vars

\* C12 (as claimed): once the group is dead, a call of Next returns the
\* group's terminal error and the empty record, and takes nothing from the
\* channel.  (Stated for a channel that Teardown has not closed.)
C12_DeadGroupReturnsError ==
    [][(Next /\ tomb.dead /\ ~recordsClosed)
       => (/\ nextRes'.err = tomb.reason
           /\ nextRes'.rec = ZeroRecord
           /\ records' = records)]_vars

\* C13 (as claimed): while the group is not dead and the channel is empty,
\* a call of Next returns ErrBackoffRetry and the empty record, and leaves
\* the channel, the cursor store and the tomb as they are.
C13_NextBacksOff ==
    [][(Next /\ ~tomb.dead /\ Len(records) = 0)
       => (/\ nextRes'.err = ErrBackoffRetry
           /\ nextRes'.rec = ZeroRecord
           /\ UNCHANGED <<records, latestPositions, position, tomb>>)]_vars

\* C14 (as claimed): a table-not-found error of a page query never kills
\* the group: the tomb's reason is never that error.
C14_NotFoundIsSoft == tomb.reason # ErrNotFound

\* the resume blobs that hold no position: empty, or not parsable
FreshBlobs == {NilBlob, GarbageBlob}

\* Open was given a blob that holds no position
OpenedFresh ==
    \E b \in FreshBlobs :
        openPos = IF variant = "multi" THEN fetchPosM(b) ELSE fetchPosS(b)

\* C15: after Open with an empty or unparsable blob the cursor store is
\* empty until a reader writes to it, the first cycle gives every table a
\* reader (none is skipped, the cycle is a snapshot cycle), and each of these
\* readers starts at the beginning of its table, as a first sync.
C15_FreshStart ==
    /\ [](OpenedFresh =>
            /\ cycle = 0 =>
                  /\ latestPositions = EmptyFn
                  /\ position = IF variant = "multi" THEN ZeroPosition ELSE EmptyStr
            /\ cycle = 1 => sched.pc # "cdc"
            /\ \A r \in DOMAIN readers :
                  r[1] = 1 =>
                     /\ StartsAtBeginning(readers[r])
                     /\ (variant = "single" /\ readers[r].fetches = 0)
                        => readers[r].firstSync)
    /\ [][(OpenedFresh /\ cycle = 1 /\ sched.pc = "snapshot" /\ sched' # sched)
          => <<1, TableIDs[sched.i]>> \in DOMAIN readers']_vars

\* C15, the case: opened without a position, the reader of the first cycle
\* has fetched its first page from the beginning and holds a row
C15_Witness ==
    /\ OpenedFresh /\ variant = "single" /\ cycle = 1
    /\ \E r \in DOMAIN readers :
          /\ readers[r].pc = "send" /\ readers[r].fetches = 1
          /\ readers[r].pending.row = 1

\* the cursor of table t in the store that Open rebuilds from token tok
\* (multi-table variant): s.position names one table, LatestPositions is empty
ReopenedCursorM(tok, t) ==
    IF fetchPosM(tok).TableID = t THEN fetchPosM(tok).Offset ELSE 0

\* C16 (as claimed): when a reader has written the cursor of record R, the
\* store that Open rebuilds from R's position token equals the cursor store
\* at that moment, for every table.
C16_ResumeRoundTrip ==
    [][\A r \in DOMAIN readers :
          (/\ r \in DOMAIN readers'
           /\ readers[r].pc = "next" /\ readers'[r].pc = "send")
          => LET tok == readers'[r].pending.Position
             IN  IF variant = "multi"
                 THEN \A t \in TableSet :
                        ReopenedCursorM(tok, t) = LatestPositionOf(latestPositions', t).Offset
                 ELSE fetchPosS(tok) = position']_vars

\* C17 (as claimed): when table discovery fails no reader is started, the
\* process goes on, and once runIterator has returned the group is dead
\* with the discovery error.
C17_DiscoveryFailureIsFatal ==
    /\ tomb.reason = ErrList => (tomb.dead /\ readers = EmptyFn)
    /\ (variant = "single" /\ cfg.tableBlank)
       => /\ panic = "none"
          /\ readers = EmptyFn
          /\ sched.pc # "start" => (tomb.dead /\ tomb.reason = ErrTableBlank)

\* rows reader r has taken so far: full pages, and the rows of this page
RowsTaken(r) == (readers[r].fetches - 1) * CounterLimit + readers[r].counter

\* the offset a reader started at, and the one it has reached, as numbers
StartNum(r) ==
    IF variant = "multi" THEN readers[r].start
    ELSE IF readers[r].start = EmptyStr THEN 0 ELSE readers[r].start.v
OffsetNum(r) ==
    IF variant = "multi" THEN readers[r].offset ELSE readers[r].offset.v

\* C18 (as claimed): with no increment column, a reader that started at
\* offset S and has taken k rows holds, and has stored, the cursor S + k.
C18_CounterCursor ==
    \A r \in DOMAIN readers :
        (~cfg.incrementCol /\ readers[r].pc = "send")
        => /\ OffsetNum(r) = StartNum(r) + RowsTaken(r)
           /\ StoredCursor(r[2]) = StartNum(r) + RowsTaken(r)

\* C19 (as claimed): the scheduler is never at its read of the cursor map
\* in runCDCIterator, which takes no lock, while a reader is due to write
\* the map; the run-time never finds a concurrent map read and map write.
C19_NoUnlockedMapRead ==
    /\ ~(sched.pc = "cdc" /\ MapWriteDue)
    /\ panic # "concurrent map read and map write"

(***************************************************************************)
(* The cycle barrier, completeness, shutdown, provenance.                  *)
(***************************************************************************)
\* the running readers of cycle c
ReadersOf(c) == {r \in DOMAIN readers : r[1] = c}

\* C21 (as claimed): the wait group of the cycle in flight counts the
\* readers of the cycle that have been started and have not returned, so
\* that wg.Wait returns once all of them have: while runIterator is in the
\* cycle (starting readers or in wg.Wait) the counter equals the number of
\* running readers of the cycle.
C21_BarrierCountsReaders ==
    (sched.pc \in {"snapshot", "cdc", "wait"})
    => wg[cycle] = Cardinality(ReadersOf(cycle))

\* the rows (by their place in the table) of the records of table t that
\* the output channel accepted
EmittedRows(t) == [i \in 1..Len(emitted[t]) |-> emitted[t][i].row]

\* C22 (as claimed): with an increment column, a reader of the snapshot
\* cycle that started without a position and has reached the end of the
\* unchanged table has emitted every row of the table exactly once.
C22_SnapshotEmitsEveryRow ==
    \A r \in DOMAIN readers :
        (/\ variant = "single" /\ cfg.incrementCol
         /\ r[1] = 1 /\ openPos = EmptyStr
         /\ readers[r].pc = "loop" /\ readers[r].lastRow
         /\ Len(data[r[2]]) = readers[r].len0)
        => EmittedRows(r[2]) = [i \in 1..Len(data[r[2]]) |-> i]

\* a step of a managed task: runIterator or a reader (not the host, not
\* the warehouse)
TaskStep ==
    \/ MStart \/ MSnapshotStep \/ MCDCStep \/ SchedWait \/ SchedDying \/ MTick
    \/ SStart \/ STick
    \/ \E r \in DOMAIN readers : MReadLoop(r)
    \/ \E r \in DOMAIN readers : MReadNext(r)
    \/ \E r \in DOMAIN readers : MReadNextErr(r)
    \/ \E r \in DOMAIN readers : SReadLoop(r)
    \/ \E r \in DOMAIN readers : SReadNext(r)
    \/ \E r \in DOMAIN readers : SReadNextErr(r)
    \/ \E r \in DOMAIN readers : ReadSend(r)

\* C23 (as claimed): once the group has been killed it comes to its end
\* without the host: as long as the tomb is dying and not dead, some managed
\* task can take a step (no reader is blocked for good in its send, the
\* scheduler is not held for good in wg.Wait).  (Stated for the runs in
\* which the wait group counts the readers, see C21.)
C23_KilledGroupGoesOn ==
    (/\ Running /\ tombDying(tomb) /\ ~tomb.dead
     /\ C21_BarrierCountsReaders)
    => ENABLED TaskStep

\* C24 (as claimed): a call of Next that returns a nil error returns the
\* record at the head of the output channel, which a reader sent, and takes
\* it from the channel: never the empty record.
C24_NilErrorMeansRecord ==
    [][(Next /\ nextRes'.err = NilErr)
       => (/\ Len(records) > 0
           /\ nextRes'.rec = Head(records)
           /\ nextRes'.rec # ZeroRecord
           /\ nextRes'.rec.Position # NilBlob
           /\ records' = Tail(records))]_vars

====
